---- MODULE Spec2Model ----
(***************************************************************************)
(* vue-concurrency: the admission policy of a Task, the lifecycle of its   *)
(* TaskInstances and the helpers of src/utils.ts that decide them          *)
(* (reachedMaxConcurrency, cancelFirstRunning, dropEnqueued and the        *)
(* filtered views).  An instance is identified by its index in             *)
(* task._instances (invocation order); a view is a sequence of indices.    *)
(* The other utilities of src/utils.ts (the scalar views, defer,           *)
(* getCancelToken, waitForValue) have a specification each, over their own *)
(* variable; a specification leaves the other variables as they start.     *)
(***************************************************************************)
EXTENDS Integers, Sequences, FiniteSets, TLC

VARIABLES
  task,      \* the Task: its policy and its instances
  read,      \* the latest read of a derived view since the task last changed
  coll,      \* the array an accessor hands to a scalar view
  deferred,  \* the object defer() returned
  cancelling,\* a signal and the cancel tokens made for it
  waiting    \* a waitForValue call: its watch effect and its promise

vars == <<task, read, coll, deferred, cancelling, waiting>>

\* ---------------------------------------------------------------- bounds
MaxInstances == 4
MaxConcurrency == 2

\* ---------------------------------------------------------------- values
Undefined == "undefined"
Values == {"v1"}
CancelReason == "cancel"
Errors == {"e1"}
Policies == {"General", "Drop", "Enqueue", "Restartable", "KeepLatest"}
BooleanKeys ==
  {"isEnqueued", "isRunning", "isSuccessful", "isError", "isCanceled", "isDropped"}

\* A TaskInstance right after construction: status pending, no flag set.
\* body is the position of the operation body; startSeq (0 = never run),
\* admittedAs, canceledFrom and evicted record the instance's history.
NewSignal == [isCanceled |-> FALSE, pr |-> "pending"]

NewInstance ==
  [ isEnqueued |-> FALSE, isRunning |-> FALSE, isSuccessful |-> FALSE,
    isError |-> FALSE, isCanceled |-> FALSE, isDropped |-> FALSE,
    value |-> Undefined, error |-> Undefined,
    signal |-> NewSignal,
    body |-> "idle", startSeq |-> 0,
    admittedAs |-> "pending", canceledFrom |-> "none", evicted |-> FALSE ]

\* status is derived from the flags, first match wins.
status(instance) ==
  IF instance.isRunning THEN "running"
  ELSE IF instance.isEnqueued THEN "enqueued"
  ELSE IF instance.isCanceled THEN "canceled"
  ELSE IF instance.isDropped THEN "dropped"
  ELSE IF instance.isError THEN "error"
  ELSE IF instance.isSuccessful THEN "successful"
  ELSE "pending"

\* item[key] for a boolean key of TaskInstance.
Field(item, key) ==
  CASE key = "isEnqueued" -> item.isEnqueued
    [] key = "isRunning" -> item.isRunning
    [] key = "isSuccessful" -> item.isSuccessful
    [] key = "isError" -> item.isError
    [] key = "isCanceled" -> item.isCanceled
    [] key = "isDropped" -> item.isDropped

\* JavaScript values as they reach the filter: a boolean field reads "true" or
\* "false"; undefined and false are falsy.
JsBool(b) == IF b THEN "true" ELSE "false"

Truthy(v) == v \notin {Undefined, "false"}

Indices(collection) == [i \in 1..Len(collection) |-> i]

RECURSIVE Reverse(_)
Reverse(s) == IF s = <<>> THEN <<>> ELSE Append(Reverse(Tail(s)), Head(s))

\* computedFilterBy yielding the matches newest first.
computedFilterBy_reversed(collection, key, value) ==
  Reverse(SelectSeq(Indices(collection),
                    LAMBDA i : Truthy(JsBool(Field(collection[i], key)))))

\* computedFilterBy comparing with value also when no value is given.
computedFilterBy_alwaysCompares(collection, key, value) ==
  SelectSeq(Indices(collection),
            LAMBDA i : JsBool(Field(collection[i], key)) = value)

\* collection.filter(item => value ? item[key] === value : item[key])
computedFilterBy(collection, key, value) ==
  SelectSeq(Indices(collection),
            LAMBDA i : IF Truthy(value)
                         THEN JsBool(Field(collection[i], key)) = value
                         ELSE Truthy(JsBool(Field(collection[i], key))))

\* filteredInstances handing out the whole collection when no key is given.
filteredInstances_allWithoutKey(t, key) ==
  IF key = Undefined THEN Indices(t._instances)
  ELSE computedFilterBy(t._instances, key, Undefined)

\* filteredInstances(() => task, key); key = Undefined is the call with no key.
filteredInstances(t, key) ==
  IF key = Undefined THEN <<>>
  ELSE computedFilterBy(t._instances, key, Undefined)

_runningInstances(t) == filteredInstances(t, "isRunning")

_enqueuedInstances(t) == filteredInstances(t, "isEnqueued")

\* running and enqueued instances, in invocation order
_activeInstances(t) ==
  SelectSeq(Indices(t._instances),
            LAMBDA i : t._instances[i].isRunning \/ t._instances[i].isEnqueued)

\* reachedMaxConcurrency with > for >=.
reachedMaxConcurrency_strict(t) ==
  Len(_runningInstances(t)) > t._maxConcurrency

reachedMaxConcurrency(t) ==
  Len(_runningInstances(t)) >= t._maxConcurrency

_hasConcurrency(t) ==
  t._isDropping \/ t._isEnqueuing \/ t._isRestartable \/ t._isKeepingLatest

\* instance._run(): the instance becomes running and its body starts.
_run(t, i) ==
  LET started == Cardinality({j \in 1..Len(t._instances) :
                                t._instances[j].startSeq > 0})
  IN [t EXCEPT !._instances[i] =
        [@ EXCEPT !.isEnqueued = FALSE, !.isRunning = TRUE,
                  !.body = "executing", !.startSeq = started + 1]]

\* No promotion when a running instance finishes.
onFinish_never(t) == t

\* A running instance has finished and freed its slot: the first enqueued
\* instance is promoted.
onFinish(t) ==
  IF (t._isEnqueuing \/ t._isKeepingLatest) /\ Len(_enqueuedInstances(t)) > 0
    THEN _run(t, _enqueuedInstances(t)[1])
    ELSE t

\* cancel() without the check of the instance's state.
cancel_unguarded(t, i) ==
  onFinish([t EXCEPT !._instances[i] =
              [@ EXCEPT !.isRunning = FALSE, !.isEnqueued = FALSE,
                        !.isCanceled = TRUE,
                        !.signal = [isCanceled |-> TRUE, pr |-> "rejected"]]])

\* instance.cancel()
cancel(t, i) ==
  LET instance == t._instances[i]
      t1 == [t EXCEPT !._instances[i] =
               [@ EXCEPT !.isRunning = FALSE, !.isEnqueued = FALSE,
                         !.isCanceled = TRUE,
                         !.signal = [isCanceled |-> TRUE, pr |-> "rejected"],
                         !.canceledFrom = status(instance)]]
  IN IF instance.isRunning THEN onFinish(t1)
     ELSE IF instance.isEnqueued THEN t1
     ELSE t

\* cancelFirstRunning taking the newest active instance.
cancelFirstRunning_newest(t) ==
  IF Len(_activeInstances(t)) > 0
    THEN LET newest == _activeInstances(t)[Len(_activeInstances(t))]
         IN [cancel(t, newest) EXCEPT !._instances[newest].evicted = TRUE]
    ELSE t

\* cancelFirstRunning without the call of cancel().
cancelFirstRunning_skipped(t) == t

cancelFirstRunning(t) ==
  IF Len(_activeInstances(t)) > 0
    THEN LET firstRunningInstance == _activeInstances(t)[1]
         IN [cancel(t, firstRunningInstance)
               EXCEPT !._instances[firstRunningInstance].evicted = TRUE]
    ELSE t

RECURSIVE forEachDrop(_, _)
forEachDrop(t, ids) ==
  IF ids = <<>> THEN t
  ELSE forEachDrop([t EXCEPT !._instances[Head(ids)] =
                      [@ EXCEPT !.isEnqueued = FALSE, !.isDropped = TRUE]],
                   Tail(ids))

\* dropEnqueued iterating over the active instances.
dropEnqueued_active(t) == forEachDrop(t, _activeInstances(t))

\* dropEnqueued without "instance.isEnqueued = false".
dropEnqueued_keepsEnqueued(t) ==
  [t EXCEPT !._instances =
     [i \in 1..Len(@) |-> IF @[i].isEnqueued
                            THEN [@[i] EXCEPT !.isDropped = TRUE] ELSE @[i]]]

dropEnqueued(t) == forEachDrop(t, _enqueuedInstances(t))

\* task.perform(): apply the policy, then construct and admit the instance.
perform(t) ==
  LET atCapacity == _hasConcurrency(t) /\ reachedMaxConcurrency(t)
      drop == atCapacity /\ t._isDropping
      enqueue == atCapacity /\ (t._isEnqueuing \/ t._isKeepingLatest)
      t1 == IF atCapacity /\ t._isRestartable THEN cancelFirstRunning(t) ELSE t
      t2 == IF atCapacity /\ t._isKeepingLatest THEN dropEnqueued(t1) ELSE t1
      id == Len(t._instances) + 1
      admitted == IF drop THEN "dropped"
                  ELSE IF enqueue THEN "enqueued" ELSE "running"
      t3 == [t2 EXCEPT !._instances =
               Append(@, [NewInstance EXCEPT !.isEnqueued = enqueue,
                                             !.isDropped = drop,
                                             !.admittedAs = admitted])]
  IN IF drop \/ enqueue THEN t3 ELSE _run(t3, id)

\* The body's return recorded whatever the instance's state.
resolveBody_unguarded(t, i, v) ==
  LET t1 == [t EXCEPT !._instances[i] =
               [@ EXCEPT !.body = "returned", !.isRunning = FALSE,
                         !.isSuccessful = TRUE, !.value = v]]
  IN IF t._instances[i].isRunning THEN onFinish(t1) ELSE t1

\* The body of instance i returns v.
resolveBody(t, i, v) ==
  LET instance == t._instances[i]
      t1 == [t EXCEPT !._instances[i].body = "returned"]
  IN IF instance.isRunning
       THEN onFinish([t1 EXCEPT !._instances[i] =
                        [@ EXCEPT !.isRunning = FALSE, !.isSuccessful = TRUE,
                                  !.value = v]])
       ELSE t1

\* The body's rejection recorded whatever the instance's state.
rejectBody_unguarded(t, i, e) ==
  LET t1 == [t EXCEPT !._instances[i] =
               [@ EXCEPT !.body = "threw", !.isRunning = FALSE,
                         !.isError = TRUE, !.error = e]]
  IN IF t._instances[i].isRunning THEN onFinish(t1) ELSE t1

\* The body of instance i rejects with reason e.
rejectBody(t, i, e) ==
  LET instance == t._instances[i]
      t1 == [t EXCEPT !._instances[i].body = "threw"]
  IN IF instance.isRunning
       THEN onFinish([t1 EXCEPT !._instances[i] =
                        [@ EXCEPT !.isRunning = FALSE, !.isError = TRUE,
                                  !.error = e]])
       ELSE t1

NewTask(policy, n) ==
  [ _instances |-> <<>>, _maxConcurrency |-> n,
    _isDropping |-> policy = "Drop", _isEnqueuing |-> policy = "Enqueue",
    _isRestartable |-> policy = "Restartable",
    _isKeepingLatest |-> policy = "KeepLatest" ]

\* No view has been read since the task last changed.
NoRead == [view |-> "none", key |-> Undefined, value |-> <<>>]

NoDeferred == [state |-> "none"]

NoCancelling == [state |-> "none"]

NoWaiting == [state |-> "none"]

TaskInit == \E policy \in Policies, n \in 1..MaxConcurrency : task = NewTask(policy, n)

Init ==
  /\ TaskInit
  /\ read = NoRead /\ coll = <<>>
  /\ deferred = NoDeferred /\ cancelling = NoCancelling /\ waiting = NoWaiting

PerformUpTo(n) ==
  /\ Len(task._instances) < n
  /\ task' = perform(task)
  /\ read' = NoRead
  /\ UNCHANGED <<coll, deferred, cancelling, waiting>>

Perform == PerformUpTo(MaxInstances)

Cancel ==
  /\ \E i \in 1..Len(task._instances) : task' = cancel(task, i)
  /\ read' = NoRead
  /\ UNCHANGED <<coll, deferred, cancelling, waiting>>

BodyReturns ==
  /\ \E i \in 1..Len(task._instances), v \in Values :
       /\ task._instances[i].body = "executing"
       /\ task' = resolveBody(task, i, v)
  /\ read' = NoRead
  /\ UNCHANGED <<coll, deferred, cancelling, waiting>>

\* The body rejects with the cancellation marker only after it has observed
\* the cancellation of its signal.
BodyThrows ==
  /\ \E i \in 1..Len(task._instances), e \in Errors \cup {CancelReason} :
       /\ task._instances[i].body = "executing"
       /\ e = CancelReason => task._instances[i].signal.isCanceled
       /\ task' = rejectBody(task, i, e)
  /\ read' = NoRead
  /\ UNCHANGED <<coll, deferred, cancelling, waiting>>

Next == Perform \/ Cancel \/ BodyReturns \/ BodyThrows

Spec == Init /\ [][Next]_vars

\* ---------------------------------------------------------------- claims
Ids == 1..Len(task._instances)

Instance(i) == task._instances[i]

RunningIds == {i \in Ids : status(Instance(i)) = "running"}

EnqueuedIds == {i \in Ids : status(Instance(i)) = "enqueued"}

IsPerformStep == Len(task'._instances) = Len(task._instances) + 1

NewId == Len(task._instances) + 1

\* C1: under every policy with a ceiling, the number of running instances
\* never exceeds maxConcurrency.
C1_ConcurrencyCeiling ==
  _hasConcurrency(task) => Cardinality(RunningIds) <= task._maxConcurrency

\* An Enqueue task at capacity with a backlog, after a promotion and a
\* completion have happened.
C1_Witness ==
  /\ task._isEnqueuing
  /\ Cardinality(RunningIds) = task._maxConcurrency
  /\ EnqueuedIds # {}
  /\ \E i \in Ids : Instance(i).isSuccessful
  /\ \E i \in RunningIds : Instance(i).admittedAs = "enqueued"

\* C2: under Enqueue, of two instances enqueued at capacity and never
\* cancelled, the one invoked first starts running strictly before the other.
C2_FifoPromotion ==
  task._isEnqueuing =>
    \A a, b \in Ids :
      ( /\ a < b
        /\ Instance(a).admittedAs = "enqueued"
        /\ Instance(b).admittedAs = "enqueued"
        /\ ~Instance(a).isCanceled /\ ~Instance(b).isCanceled
        /\ Instance(b).startSeq > 0 )
      => (Instance(a).startSeq > 0 /\ Instance(a).startSeq < Instance(b).startSeq)

\* Two running instances finished newest first, and the two enqueued ones
\* were promoted in invocation order.
C2_Witness ==
  /\ task._isEnqueuing /\ task._maxConcurrency = 2 /\ Len(task._instances) = 4
  /\ Instance(3).admittedAs = "enqueued" /\ Instance(4).admittedAs = "enqueued"
  /\ Instance(1).startSeq = 1 /\ Instance(2).startSeq = 2
  /\ Instance(3).startSeq = 3 /\ Instance(4).startSeq = 4
  /\ Instance(2).isSuccessful /\ Instance(1).isError
  /\ ~Instance(3).isCanceled /\ ~Instance(4).isCanceled

\* C3: Restartable with maxConcurrency 1: a perform while A runs cancels A
\* (status canceled, signal canceled), changes no other instance and leaves
\* the new instance running.
C3_RestartableEviction ==
  [][ (task._isRestartable /\ task._maxConcurrency = 1 /\ IsPerformStep
         /\ RunningIds # {})
      => /\ status(task'._instances[NewId]) = "running"
         /\ \A a \in Ids :
              IF a \in RunningIds
                THEN /\ status(task'._instances[a]) = "canceled"
                     /\ task'._instances[a].isCanceled
                     /\ task'._instances[a].signal.isCanceled
                ELSE task'._instances[a] = Instance(a) ]_vars

\* A was evicted by the perform of B, which runs.
C3_Witness ==
  /\ task._isRestartable /\ task._maxConcurrency = 1
  /\ \E a, b \in Ids :
       /\ b = a + 1
       /\ Instance(a).evicted /\ Instance(a).canceledFrom = "running"
       /\ Instance(a).signal.isCanceled
       /\ status(Instance(b)) = "running"

\* C4: Drop with maxConcurrency 1: a perform while A runs yields a dropped
\* instance B and leaves A as it was; whatever A does next (cancel, return,
\* rejection) gives A the record it would have had without B; a dropped
\* instance never runs.
C4_DropAtCapacity ==
  (task._isDropping /\ task._maxConcurrency = 1) =>
    /\ \A a \in RunningIds :
         LET withB == perform(task)
         IN /\ status(withB._instances[NewId]) = "dropped"
            /\ withB._instances[NewId].startSeq = 0
            /\ withB._instances[a] = Instance(a)
            /\ cancel(withB, a)._instances[a] = cancel(task, a)._instances[a]
            /\ \A v \in Values :
                 resolveBody(withB, a, v)._instances[a]
                   = resolveBody(task, a, v)._instances[a]
            /\ \A e \in Errors :
                 rejectBody(withB, a, e)._instances[a]
                   = rejectBody(task, a, e)._instances[a]
    /\ \A b \in Ids :
         Instance(b).admittedAs = "dropped"
           => /\ status(Instance(b)) = "dropped"
              /\ Instance(b).startSeq = 0 /\ Instance(b).body = "idle"

\* B was dropped while A ran, and A has completed since.
C4_Witness ==
  /\ task._isDropping /\ task._maxConcurrency = 1
  /\ Len(task._instances) = 2
  /\ Instance(1).isSuccessful /\ Instance(1).value \in Values
  /\ status(Instance(2)) = "dropped"

\* C5: KeepLatest at capacity: a perform drops every enqueued instance, which
\* never runs, leaves every running instance as it was (running), and
\* afterwards only the new instance can be enqueued.
C5_KeepLatestDropsBacklog ==
  /\ [](task._isKeepingLatest =>
          /\ EnqueuedIds = {} \/ EnqueuedIds = {Len(task._instances)}
          /\ \A i \in Ids : Instance(i).isDropped =>
               /\ status(Instance(i)) = "dropped"
               /\ Instance(i).startSeq = 0 /\ Instance(i).body = "idle")
  /\ [][ (task._isKeepingLatest /\ IsPerformStep
            /\ Cardinality(RunningIds) >= task._maxConcurrency)
         => /\ \A i \in EnqueuedIds : status(task'._instances[i]) = "dropped"
            /\ \A i \in RunningIds :
                 /\ status(task'._instances[i]) = "running"
                 /\ task'._instances[i] = Instance(i)
            /\ \A i \in 1..Len(task'._instances) :
                 status(task'._instances[i]) = "enqueued" => i = NewId ]_vars

\* An instance enqueued at capacity was dropped by a later perform, whose
\* instance is enqueued while the older instances still run.
C5_Witness ==
  /\ task._isKeepingLatest /\ task._maxConcurrency = 2
  /\ Len(task._instances) = 4
  /\ status(Instance(1)) = "running" /\ status(Instance(2)) = "running"
  /\ Instance(3).admittedAs = "enqueued" /\ status(Instance(3)) = "dropped"
  /\ status(Instance(4)) = "enqueued"

StatusOfKey(key) ==
  CASE key = "isEnqueued" -> "enqueued"
    [] key = "isRunning" -> "running"
    [] key = "isSuccessful" -> "successful"
    [] key = "isError" -> "error"
    [] key = "isCanceled" -> "canceled"
    [] key = "isDropped" -> "dropped"

\* C6: every instance has at most one status flag set, and a flag is set iff
\* status has the corresponding value; also after dropEnqueued.
C6_OneStatus ==
  \A i \in Ids :
    /\ Cardinality({key \in BooleanKeys : Field(Instance(i), key)}) <= 1
    /\ \A key \in BooleanKeys :
         Field(Instance(i), key) <=> status(Instance(i)) = StatusOfKey(key)

\* An instance changed by dropEnqueued: dropped, no longer enqueued.
C6_Witness ==
  \E i \in Ids :
    /\ Instance(i).admittedAs = "enqueued"
    /\ Instance(i).isDropped /\ ~Instance(i).isEnqueued
    /\ status(Instance(i)) = "dropped"

LifecycleEdges ==
  {<<"running", "successful">>, <<"running", "error">>, <<"running", "canceled">>,
   <<"enqueued", "running">>, <<"enqueued", "dropped">>, <<"enqueued", "canceled">>}

\* C7: a new instance leaves perform running, enqueued or dropped, and every
\* later change of status follows a lifecycle edge; a terminal status never
\* changes.
C7_Lifecycle ==
  [][ /\ \A i \in Ids :
           \/ status(task'._instances[i]) = status(Instance(i))
           \/ <<status(Instance(i)), status(task'._instances[i])>> \in LifecycleEdges
      /\ \A i \in (Len(task._instances) + 1)..Len(task'._instances) :
           status(task'._instances[i]) \in {"running", "enqueued", "dropped"}
      /\ Len(task'._instances) >= Len(task._instances) ]_vars

\* Instances in each terminal status, one of them promoted from the queue,
\* with the task still operating.
C7_Witness ==
  /\ \E i \in Ids : Instance(i).admittedAs = "enqueued" /\ Instance(i).isSuccessful
  /\ \E i \in Ids : status(Instance(i)) = "canceled"
  /\ \E i \in Ids : status(Instance(i)) = "error"
  /\ RunningIds # {}

\* C8: a second cancel() of an instance changes nothing the first one has
\* not, whatever the instance's state; a signal once canceled stays canceled.
C8_CancelIdempotent ==
  /\ [](\A i \in Ids : cancel(cancel(task, i), i) = cancel(task, i))
  /\ [][ \A i \in Ids :
           Instance(i).signal.isCanceled
             => task'._instances[i].signal = Instance(i).signal ]_vars

\* A running instance was cancelled with a backlog waiting, and one instance
\* had finished before.
C8_Witness ==
  /\ task._isEnqueuing
  /\ \E i \in Ids :
       /\ Instance(i).canceledFrom = "running"
       /\ Instance(i).signal.isCanceled
       /\ cancel(task, i) = task
  /\ EnqueuedIds # {}
  /\ \E i \in Ids : Instance(i).isSuccessful

\* C9: an instance cancelled while running, by cancel() or by eviction, is
\* canceled for good and never error; its body's later rejection leaves the
\* error field unset.
C9_CancelAbsorbsRejection ==
  \A i \in Ids :
    Instance(i).canceledFrom = "running"
      => /\ status(Instance(i)) = "canceled"
         /\ ~Instance(i).isError
         /\ Instance(i).error = Undefined

\* An evicted instance and an explicitly cancelled one, both with a body that
\* rejected after the cancellation.
C9_Witness ==
  \E a, b \in Ids :
    /\ Instance(a).evicted /\ Instance(a).canceledFrom = "running"
    /\ Instance(a).body = "threw"
    /\ ~Instance(b).evicted /\ Instance(b).canceledFrom = "running"
    /\ Instance(b).body = "threw"

\* C10: the rejection of a running instance's body makes it error with the
\* error set; value is set only on a successful instance and error only on
\* an error instance.
C10_ErrorAndValue ==
  /\ [](\A i \in Ids :
          /\ Instance(i).value # Undefined => status(Instance(i)) = "successful"
          /\ Instance(i).error # Undefined => status(Instance(i)) = "error")
  /\ [][ \A i \in Ids :
           (status(Instance(i)) = "running" /\ task'._instances[i].body = "threw")
             => /\ status(task'._instances[i]) = "error"
                /\ task'._instances[i].error \in Errors \cup {CancelReason} ]_vars

\* One instance failed, one succeeded, and a cancelled one whose body
\* returned afterwards.
C10_Witness ==
  /\ \E i \in Ids : status(Instance(i)) = "error" /\ Instance(i).error \in Errors
  /\ \E i \in Ids : status(Instance(i)) = "successful" /\ Instance(i).value \in Values
  /\ \E i \in Ids : status(Instance(i)) = "canceled" /\ Instance(i).body = "returned"

\* ---------------------------------------------------------------- defer()
MaxCalls == 3

\* What resolve and reject are called with.
SettleArgs == Values \cup Errors \cup {CancelReason, Undefined}

\* The task of the specifications that are not about the task.
IdleTask == NewTask("General", 1)

\* The object defer() returns: a pending promise with its resolve and reject;
\* calls records the calls made of them.
defer == [state |-> "pending", value |-> Undefined, calls |-> <<>>]

\* deferredObject.resolve(arg) with a promise that can be settled again.
deferredResolve_resettles(d, arg) ==
  [state |-> "fulfilled", value |-> arg,
   calls |-> Append(d.calls, [fn |-> "resolve", arg |-> arg])]

\* deferredObject.resolve(arg): the promise's own resolve.
deferredResolve(d, arg) ==
  LET called == [d EXCEPT !.calls = Append(@, [fn |-> "resolve", arg |-> arg])]
  IN IF d.state = "pending"
       THEN [called EXCEPT !.state = "fulfilled", !.value = arg]
       ELSE called

\* deferredObject.reject(arg): the promise's own reject.
deferredReject(d, arg) ==
  LET called == [d EXCEPT !.calls = Append(@, [fn |-> "reject", arg |-> arg])]
  IN IF d.state = "pending"
       THEN [called EXCEPT !.state = "rejected", !.value = arg]
       ELSE called

DeferInit ==
  /\ task = IdleTask /\ read = NoRead /\ coll = <<>>
  /\ deferred = NoDeferred /\ cancelling = NoCancelling /\ waiting = NoWaiting

CallDefer ==
  /\ deferred = NoDeferred
  /\ deferred' = defer
  /\ UNCHANGED <<task, read, coll, cancelling, waiting>>

CallResolve ==
  /\ deferred # NoDeferred
  /\ Len(deferred.calls) < MaxCalls
  /\ \E arg \in SettleArgs : deferred' = deferredResolve(deferred, arg)
  /\ UNCHANGED <<task, read, coll, cancelling, waiting>>

CallReject ==
  /\ deferred # NoDeferred
  /\ Len(deferred.calls) < MaxCalls
  /\ \E arg \in SettleArgs : deferred' = deferredReject(deferred, arg)
  /\ UNCHANGED <<task, read, coll, cancelling, waiting>>

DeferNext == CallDefer \/ CallResolve \/ CallReject

DeferSpec == DeferInit /\ [][DeferNext]_vars

\* What the promise is once the call c has settled it.
OutcomeOf(c) == IF c.fn = "resolve" THEN "fulfilled" ELSE "rejected"

\* C11: once resolve or reject has been called, the promise is settled with
\* the first call's outcome and argument, whatever calls follow.
C11_FirstSettlementWins ==
  deferred # NoDeferred =>
    IF deferred.calls = <<>>
      THEN deferred.state = "pending"
      ELSE /\ deferred.state = OutcomeOf(deferred.calls[1])
           /\ deferred.value = deferred.calls[1].arg

\* resolve, then reject and resolve with other arguments: still fulfilled
\* with the first value.
C11_Witness ==
  /\ deferred # NoDeferred
  /\ Len(deferred.calls) = 3
  /\ deferred.calls[1] = [fn |-> "resolve", arg |-> "v1"]
  /\ deferred.calls[2] = [fn |-> "reject", arg |-> "e1"]
  /\ deferred.calls[3] = [fn |-> "resolve", arg |-> Undefined]
  /\ deferred.state = "fulfilled" /\ deferred.value = "v1"

\* ---------------------------------------------------------------- derived views
MaxViewInstances == 2

\* collection[index] of a JavaScript array: undefined outside 0..length-1.
At(collection, index) ==
  IF index \in 0..(Len(collection) - 1) THEN collection[index + 1] ELSE Undefined

computedLength(collection) == Len(collection)

\* computedLastOf reading collection[collection.length].
computedLastOf_offByOne(collection) == At(collection, Len(collection))

computedLastOf(collection) == At(collection, Len(collection) - 1)

computedFirstOf(collection) == At(collection, 0)

ViewKeys == BooleanKeys \cup {Undefined}

\* A read of the filtered view that filters the task's own array in place.
readFiltered_inPlace(t, key) ==
  [value |-> filteredInstances(t, key),
   task |-> [t EXCEPT !._instances =
               SelectSeq(@, LAMBDA item : key # Undefined /\ Field(item, key))]]

\* A read of filteredInstances(() => task, key): the value read, and the task
\* as the read leaves it.
readFiltered(t, key) ==
  [value |-> filteredInstances(t, key), task |-> t]

\* Reads of the scalar views over filteredInstances(() => task, key).
readLength(t, key) ==
  [value |-> computedLength(filteredInstances(t, key)), task |-> t]

readFirstOf(t, key) ==
  [value |-> computedFirstOf(filteredInstances(t, key)), task |-> t]

readLastOf(t, key) ==
  [value |-> computedLastOf(filteredInstances(t, key)), task |-> t]

ViewPerform == PerformUpTo(MaxViewInstances)

ReadFiltered ==
  /\ \E key \in ViewKeys :
       LET r == readFiltered(task, key)
       IN /\ read' = [view |-> "filteredInstances", key |-> key, value |-> r.value]
          /\ task' = r.task
  /\ UNCHANGED <<coll, deferred, cancelling, waiting>>

ReadLength ==
  /\ \E key \in BooleanKeys :
       LET r == readLength(task, key)
       IN /\ read' = [view |-> "computedLength", key |-> key, value |-> r.value]
          /\ task' = r.task
  /\ UNCHANGED <<coll, deferred, cancelling, waiting>>

ReadFirstOf ==
  /\ \E key \in BooleanKeys :
       LET r == readFirstOf(task, key)
       IN /\ read' = [view |-> "computedFirstOf", key |-> key, value |-> r.value]
          /\ task' = r.task
  /\ UNCHANGED <<coll, deferred, cancelling, waiting>>

ReadLastOf ==
  /\ \E key \in BooleanKeys :
       LET r == readLastOf(task, key)
       IN /\ read' = [view |-> "computedLastOf", key |-> key, value |-> r.value]
          /\ task' = r.task
  /\ UNCHANGED <<coll, deferred, cancelling, waiting>>

ViewNext ==
  \/ ViewPerform \/ Cancel \/ BodyReturns \/ BodyThrows
  \/ ReadFiltered \/ ReadLength \/ ReadFirstOf \/ ReadLastOf

ViewSpec == Init /\ [][ViewNext]_vars

Range(seq) == {seq[n] : n \in 1..Len(seq)}

FlaggedIds(t, key) == {i \in 1..Len(t._instances) : Field(t._instances[i], key)}

\* C12: a read of a filtered view holds the instances whose flag is set in
\* the collection as it is at the read: an instance that has become
\* successful is not in the isRunning view and is in the isSuccessful view.
C12_ViewFreshness ==
  [][ (read'.view = "filteredInstances" /\ read'.key # Undefined)
      => /\ Range(read'.value) = FlaggedIds(task', read'.key)
         /\ \A i \in 1..Len(task'._instances) :
              status(task'._instances[i]) = "successful"
                => /\ read'.key = "isRunning" => i \notin Range(read'.value)
                   /\ read'.key = "isSuccessful" => i \in Range(read'.value) ]_vars

\* The isSuccessful view read after an instance that ran has returned, with
\* another instance still running.
C12_Witness ==
  /\ read.view = "filteredInstances" /\ read.key = "isSuccessful"
  /\ \E i \in Ids :
       /\ Instance(i).startSeq > 0 /\ Instance(i).body = "returned"
       /\ status(Instance(i)) = "successful"
       /\ i \in Range(read.value)
  /\ RunningIds # {}

\* C13: filteredInstances with a key yields exactly the instances whose flag
\* is set, each once, in invocation order.
C13_FilterExactInOrder ==
  (read.view = "filteredInstances" /\ read.key # Undefined)
    => /\ Range(read.value) = FlaggedIds(task, read.key)
       /\ \A m, n \in 1..Len(read.value) : m < n => read.value[m] < read.value[n]

\* A view of two instances, read in invocation order, over a collection that
\* holds none else.
C13_Witness ==
  /\ read.view = "filteredInstances" /\ read.key = "isRunning"
  /\ read.value = <<1, 2>>
  /\ Len(task._instances) = 2

\* C14: the view made with no key reads empty, whatever the collection holds.
C14_NoKeyIsEmpty ==
  (read.view = "filteredInstances" /\ read.key = Undefined) => read.value = <<>>

\* The view without a key read over a collection of a running and a
\* canceled instance.
C14_Witness ==
  /\ read.view = "filteredInstances" /\ read.key = Undefined
  /\ read.value = <<>>
  /\ RunningIds # {}
  /\ \E i \in Ids : status(Instance(i)) = "canceled"

\* C16: a read of a derived view leaves the task, its instances and their
\* order as they were.
C16_ReadsDoNotMutate ==
  [][ read'.view # "none" => task' = task ]_vars

\* A scalar view read over a task with a successful and a canceled instance.
C16_Witness ==
  /\ read.view = "computedLastOf" /\ read.key = "isCanceled"
  /\ Len(task._instances) = 2
  /\ \E i \in Ids : Instance(i).value \in Values
  /\ \E i \in Ids : Instance(i).signal.isCanceled /\ read.value = i

\* ---------------------------------------------------------------- scalar views over any array
MaxLen == 3

\* What an array handed to a scalar view may hold: T may include undefined.
Items == {"a", "b", Undefined}

RECURSIVE SeqsUpTo(_)
SeqsUpTo(n) ==
  IF n = 0 THEN {<<>>}
  ELSE LET shorter == SeqsUpTo(n - 1)
       IN shorter \cup {Append(q, x) : q \in {r \in shorter : Len(r) = n - 1}, x \in Items}

SeqInit ==
  /\ coll \in SeqsUpTo(MaxLen)
  /\ task = IdleTask /\ read = NoRead
  /\ deferred = NoDeferred /\ cancelling = NoCancelling /\ waiting = NoWaiting

SeqLength ==
  /\ read' = [view |-> "computedLength", key |-> Undefined,
              value |-> computedLength(coll)]
  /\ UNCHANGED <<task, coll, deferred, cancelling, waiting>>

SeqFirstOf ==
  /\ read' = [view |-> "computedFirstOf", key |-> Undefined,
              value |-> computedFirstOf(coll)]
  /\ UNCHANGED <<task, coll, deferred, cancelling, waiting>>

SeqLastOf ==
  /\ read' = [view |-> "computedLastOf", key |-> Undefined,
              value |-> computedLastOf(coll)]
  /\ UNCHANGED <<task, coll, deferred, cancelling, waiting>>

SeqNext == SeqLength \/ SeqFirstOf \/ SeqLastOf

SeqSpec == SeqInit /\ [][SeqNext]_vars

\* C15 as stated: the views read the length, the first and the last element,
\* and computedFirstOf and computedLastOf read undefined exactly when the
\* array is empty.
C15_UndefinedExactlyWhenEmpty ==
  /\ read.view = "computedLength" => read.value = Len(coll)
  /\ read.view = "computedFirstOf" =>
       /\ coll # <<>> => read.value = coll[1]
       /\ read.value = Undefined <=> coll = <<>>
  /\ read.view = "computedLastOf" =>
       /\ coll # <<>> => read.value = coll[Len(coll)]
       /\ read.value = Undefined <=> coll = <<>>

\* C15: computedLength reads |s|; computedFirstOf and computedLastOf read the
\* element at index 0 and |s|-1 of a non-empty s and undefined of an empty
\* one, so on a non-empty s they read undefined only if that element is
\* undefined.
C15_ScalarViews ==
  /\ read.view = "computedLength" => read.value = Len(coll)
  /\ read.view = "computedFirstOf" =>
       /\ coll # <<>> => read.value = coll[1]
       /\ coll = <<>> => read.value = Undefined
       /\ (read.value = Undefined /\ coll # <<>>) => coll[1] = Undefined
  /\ read.view = "computedLastOf" =>
       /\ coll # <<>> => read.value = coll[Len(coll)]
       /\ coll = <<>> => read.value = Undefined
       /\ (read.value = Undefined /\ coll # <<>>) => coll[Len(coll)] = Undefined

\* The last element read of an array of three whose middle element is
\* undefined.
C15_Witness ==
  /\ coll = <<"a", Undefined, "b">>
  /\ read.view = "computedLastOf" /\ read.value = "b"

\* ---------------------------------------------------------------- getCancelToken
MaxTokens == 2

\* The signals of two task instances.
Signals == {"signalA", "signalB"}

\* An AbortSignalWithPromise as getCancelToken meets it: pr is pending,
\* fulfilled or rejected with a reason.
LiveSignal == [isCanceled |-> FALSE, pr |-> "pending", reason |-> Undefined]

\* The token new axios.CancelToken(...) returns, with the position of the
\* handler given to signal.pr.catch: registered, queued (pr has rejected, the
\* handler has not run yet) or ran.
NewToken(signal) ==
  [canceled |-> FALSE,
   handler |-> IF signal.pr = "rejected" THEN "queued" ELSE "registered"]

\* The catch handler calling cancel() whatever the reason.
catchHandler_anyReason(token, reason) ==
  [token EXCEPT !.canceled = TRUE, !.handler = "ran"]

\* (reason) => { if (reason === "cancel") cancel(); }
catchHandler(token, reason) ==
  IF reason = CancelReason
    THEN [token EXCEPT !.canceled = TRUE, !.handler = "ran"]
    ELSE [token EXCEPT !.handler = "ran"]

\* pr rejects: the handlers registered on it are queued.
rejectPr(c, reason) ==
  IF c.signal.pr # "pending" THEN c
  ELSE [c EXCEPT !.signal.pr = "rejected", !.signal.reason = reason,
                 !.tokens = [k \in 1..Len(@) |->
                               IF @[k].handler = "registered"
                                 THEN [@[k] EXCEPT !.handler = "queued"]
                                 ELSE @[k]]]

CancelInit ==
  /\ cancelling = [n \in Signals |-> [signal |-> LiveSignal, tokens |-> <<>>]]
  /\ task = IdleTask /\ read = NoRead /\ coll = <<>>
  /\ deferred = NoDeferred /\ waiting = NoWaiting

\* getCancelToken(axios, signal n)
GetCancelToken ==
  /\ \E n \in Signals :
       /\ Len(cancelling[n].tokens) < MaxTokens
       /\ cancelling' = [cancelling EXCEPT ![n].tokens =
                           Append(@, NewToken(cancelling[n].signal))]
  /\ UNCHANGED <<task, read, coll, deferred, waiting>>

\* cancel() of the instance that owns signal n.
SignalCancel ==
  /\ \E n \in Signals :
       /\ ~cancelling[n].signal.isCanceled
       /\ cancelling' = [cancelling EXCEPT ![n] =
                           rejectPr([@ EXCEPT !.signal.isCanceled = TRUE], CancelReason)]
  /\ UNCHANGED <<task, read, coll, deferred, waiting>>

\* pr of signal n settles without a cancellation: it is fulfilled, or rejects
\* with another reason.
PrSettlesOtherwise ==
  /\ \E n \in Signals :
       /\ cancelling[n].signal.pr = "pending"
       /\ \/ cancelling' = [cancelling EXCEPT ![n].signal.pr = "fulfilled"]
          \/ \E reason \in Errors :
               cancelling' = [cancelling EXCEPT ![n] = rejectPr(@, reason)]
  /\ UNCHANGED <<task, read, coll, deferred, waiting>>

RunCatchOf(n, k) ==
  /\ k \in 1..Len(cancelling[n].tokens)
  /\ cancelling[n].tokens[k].handler = "queued"
  /\ cancelling' = [cancelling EXCEPT ![n].tokens[k] =
                      catchHandler(@, cancelling[n].signal.reason)]
  /\ UNCHANGED <<task, read, coll, deferred, waiting>>

RunCatch == \E n \in Signals, k \in 1..MaxTokens : RunCatchOf(n, k)

CancelNext == GetCancelToken \/ SignalCancel \/ PrSettlesOtherwise \/ RunCatch

\* A queued promise reaction is run: the microtask queue is drained.
CancelSpec ==
  /\ CancelInit /\ [][CancelNext]_vars
  /\ \A n \in Signals, k \in 1..MaxTokens : WF_vars(RunCatchOf(n, k))

CanceledByMarker(signal) == signal.pr = "rejected" /\ signal.reason = CancelReason

\* C17: a token is cancelled only if its own signal is cancelled and pr has
\* rejected with the cancellation marker; once pr has rejected with the marker
\* every token made for the signal gets cancelled; with a pr that only
\* cancel() settles, a token whose handler is not waiting to run is cancelled
\* iff its signal is.
C17_TokenFollowsSignal ==
  /\ [](\A n \in Signals : \A k \in 1..Len(cancelling[n].tokens) :
          LET token == cancelling[n].tokens[k]
              signal == cancelling[n].signal
          IN /\ token.canceled => (signal.isCanceled /\ CanceledByMarker(signal))
             /\ (token.handler # "queued"
                   /\ (signal.pr = "pending" \/ CanceledByMarker(signal)))
                  => (token.canceled <=> signal.isCanceled))
  /\ \A n \in Signals, k \in 1..MaxTokens :
       (Len(cancelling[n].tokens) >= k /\ CanceledByMarker(cancelling[n].signal))
         ~> (Len(cancelling[n].tokens) >= k /\ cancelling[n].tokens[k].canceled)

\* A signal cancelled with one token made before the cancellation and one
\* after it, both cancelled, beside a live signal whose token is not.
C17_Witness ==
  /\ cancelling["signalA"].signal.isCanceled /\ CanceledByMarker(cancelling["signalA"].signal)
  /\ Len(cancelling["signalA"].tokens) = 2
  /\ cancelling["signalA"].tokens[1].canceled /\ cancelling["signalA"].tokens[2].canceled
  /\ ~cancelling["signalB"].signal.isCanceled
  /\ Len(cancelling["signalB"].tokens) = 1 /\ ~cancelling["signalB"].tokens[1].canceled

\* ---------------------------------------------------------------- eviction and promotion
OldestRunning == CHOOSE i \in RunningIds : \A j \in RunningIds : i <= j

\* C18: wherever an instance is running, cancelFirstRunning cancels the
\* oldest running instance and no other: no enqueued and no newer running
\* instance becomes canceled.
C18_EvictsOldestRunning ==
  RunningIds # {} =>
    LET after == cancelFirstRunning(task)
    IN /\ Len(after._instances) = Len(task._instances)
       /\ status(after._instances[OldestRunning]) = "canceled"
       /\ after._instances[OldestRunning].signal.isCanceled
       /\ \A i \in Ids \ {OldestRunning} :
            /\ after._instances[i].isCanceled = Instance(i).isCanceled
            /\ after._instances[i].signal = Instance(i).signal
            /\ status(Instance(i)) = "running" => after._instances[i] = Instance(i)
            /\ status(Instance(i)) = "enqueued" =>
                 status(after._instances[i]) \in {"enqueued", "running"}

\* A Restartable task of two slots after an eviction: the oldest of the two
\* running instances was cancelled, the newer one and the new one run.
C18_Witness ==
  /\ task._isRestartable /\ task._maxConcurrency = 2
  /\ Len(task._instances) >= 3
  /\ Instance(1).evicted /\ status(Instance(1)) = "canceled"
  /\ status(Instance(2)) = "running" /\ ~Instance(2).signal.isCanceled
  /\ status(Instance(3)) = "running"

MaxLiveInstances == 3

LiveInit ==
  /\ \E n \in 1..MaxConcurrency : task = NewTask("Enqueue", n)
  /\ read = NoRead /\ coll = <<>>
  /\ deferred = NoDeferred /\ cancelling = NoCancelling /\ waiting = NoWaiting

LivePerform == PerformUpTo(MaxLiveInstances)

LiveNext == LivePerform \/ Cancel \/ BodyReturns \/ BodyThrows

\* The body of instance i ends, by returning or by rejecting.
BodyEndsOf(i) ==
  /\ i \in 1..Len(task._instances)
  /\ task._instances[i].body = "executing"
  /\ BodyReturns \/ BodyThrows
  /\ task'._instances[i].body # "executing"

\* Every body that has started ends.
LiveSpec ==
  /\ LiveInit /\ [][LiveNext]_vars
  /\ \A i \in 1..MaxLiveInstances : WF_vars(BodyEndsOf(i))

\* C19: under Enqueue, when every started body ends, an enqueued instance
\* gets to run unless it is cancelled; a backlog never waits beside a free
\* slot.
C19_EnqueuedEventuallyRuns ==
  /\ [](EnqueuedIds # {} => Cardinality(RunningIds) >= task._maxConcurrency)
  /\ \A i \in 1..MaxLiveInstances :
       (i \in Ids /\ status(Instance(i)) = "enqueued")
         ~> (i \in Ids /\ (Instance(i).startSeq > 0 \/ Instance(i).isCanceled))

\* The last of two enqueued instances has been promoted and has finished.
C19_Witness ==
  /\ task._isEnqueuing /\ task._maxConcurrency = 1
  /\ Len(task._instances) = 3
  /\ Instance(2).admittedAs = "enqueued" /\ Instance(3).admittedAs = "enqueued"
  /\ Instance(2).startSeq = 2 /\ Instance(3).startSeq = 3
  /\ status(Instance(3)) = "successful"

\* ---------------------------------------------------------------- waitForValue
MaxChanges == 3

\* What cb() returns: undefined is falsy, the others are truthy.
WatchedValues == {Undefined, "x", "y"}

\* The state right after new Promise and watchEffect have been entered: cb
\* returns dep, the effect is registered, stop is not assigned yet.
\* firstTruthy, evalsAfterResolve, changes and threw record the history.
NewWaiting(dep) ==
  [dep |-> dep, dirty |-> FALSE, effect |-> "active", stop |-> "unassigned",
   promise |-> [state |-> "pending", value |-> Undefined],
   firstTruthy |-> Undefined, evalsAfterResolve |-> 0, changes |-> 0,
   threw |-> FALSE]

\* One run of the effect: value = cb(); if (value) { resolve(value); stop(); }
\* stop() while stop is unassigned throws, and the effect stays active.
runEffect(w) ==
  LET value == w.dep
      evaluated ==
        [w EXCEPT !.dirty = FALSE,
                  !.evalsAfterResolve =
                     IF w.promise.state = "resolved" THEN @ + 1 ELSE @,
                  !.firstTruthy =
                     IF @ = Undefined /\ Truthy(value) THEN value ELSE @]
      resolved ==
        [evaluated EXCEPT !.promise =
           IF @.state = "pending"
             THEN [state |-> "resolved", value |-> value] ELSE @]
  IN IF ~Truthy(value) THEN evaluated
     ELSE IF w.stop = "assigned" THEN [resolved EXCEPT !.effect = "stopped"]
     ELSE [resolved EXCEPT !.threw = TRUE]

WaitInit ==
  /\ waiting = NoWaiting
  /\ task = IdleTask /\ read = NoRead /\ coll = <<>>
  /\ deferred = NoDeferred /\ cancelling = NoCancelling

\* waitForValue(cb): watchEffect runs the effect at once, then returns the
\* stop handle.  When the first run has thrown, the error is either handed
\* to the framework's error handler (watchEffect returns and stop is
\* assigned) or thrown out of watchEffect (stop is never assigned).
CallWaitForValue ==
  /\ waiting = NoWaiting
  /\ \E dep \in WatchedValues, thrown \in {"handled", "propagated"} :
       LET ran == runEffect(NewWaiting(dep))
       IN waiting' = IF ran.threw /\ thrown = "propagated"
                       THEN ran
                       ELSE [ran EXCEPT !.stop = "assigned"]
  /\ UNCHANGED <<task, read, coll, deferred, cancelling>>

\* A dependency of cb changes: an active effect is scheduled to run again.
DepChange ==
  /\ waiting # NoWaiting
  /\ waiting.changes < MaxChanges
  /\ \E dep \in WatchedValues \ {waiting.dep} :
       waiting' = [waiting EXCEPT !.dep = dep, !.changes = @ + 1,
                                  !.dirty = (waiting.effect = "active")]
  /\ UNCHANGED <<task, read, coll, deferred, cancelling>>

\* The scheduled run of the effect.
Flush ==
  /\ waiting # NoWaiting
  /\ waiting.dirty /\ waiting.effect = "active"
  /\ waiting' = runEffect(waiting)
  /\ UNCHANGED <<task, read, coll, deferred, cancelling>>

WaitNext == CallWaitForValue \/ DepChange \/ Flush

WaitSpec == WaitInit /\ [][WaitNext]_vars

\* C20: the promise resolves with the first truthy value of cb, and once it
\* has resolved the effect is stopped and cb is not evaluated again.
C20_StoppedOnceResolved ==
  (waiting # NoWaiting /\ waiting.promise.state = "resolved")
    => /\ waiting.promise.value = waiting.firstTruthy
       /\ waiting.effect = "stopped"
       /\ waiting.evalsAfterResolve = 0

====
